---- MODULE Spec2Model ----
(***************************************************************************)
(* Model of desi/desi-spec-image.py: the batch driver (__main__), save,    *)
(* load and close_oldest, driving one Firefox session through Selenium.    *)
(* One action per statement (or per outcome of a driver call); the driver  *)
(* calls br.get and exec_js may raise TimeoutException, exec_js may raise  *)
(* JavascriptException.                                                    *)
(***************************************************************************)
EXTENDS Integers, Sequences, FiniteSets, TLC

\* ---------------------------------------------------------------- bounds
MaxRows == 2        \* longest input table explored
NumTargets == 2     \* distinct (SDSS_NAME, targetid) rows the table draws from
MaxCount == 2       \* the observation counters nload/ntimeout saturate here
MaxTabs == 3        \* most tabs in a session handed to close_oldest alone
MaxKeep == 3        \* largest keep_ntab handed to close_oldest alone
PngBytes == 3       \* size in bytes of a non-empty PNG found on disk at the start
MaxUrlLen == 4      \* longest string, in chunks, handed to url2bytes alone
MaxRuns == 2        \* runs of the program over the same table and directory

\* ------------------------------------------------------ program constants
KeepTabs == 2       \* close_oldest(ff, 2)
ErrorStatus == 400  \* (code := ...) >= 400

dr == "dr1"
Absent == -1        \* no regular file at a path
NoWindow == -1      \* the current window was closed and none is selected
NoCode == -1        \* load has not read the response status
NoData == -1        \* load has not returned
B64Error == -2      \* base64decode raised binascii.Error

VARIABLES
  rows,       \* df: the input table, a sequence of rows
  run,        \* which run of the program over rows this is: 1, 2, ...
  prev,       \* res as the previous run left it (all "pending" in run 1)
  fs,         \* the files under spec/: path -> size, or Absent
  session,    \* "open" | "quit": the Firefox session ff
  tabs,       \* br.window_handles, oldest first
  focus,      \* the handle the session is switched to, or NoWindow
  created,    \* handles handed out so far (the next new tab gets created + 1)
  pc,         \* the statement the program is at
  it,         \* position of the for loop's iterator in rows
  i,          \* the counter i of __main__
  progress,   \* log_prefix: <<i, nrow>> for "[i/nrow] "
  imgs,       \* the list imgs
  log,        \* the lines printed so far
  ret,        \* what save returned
  keep_ntab,  \* close_oldest's argument
  code,       \* load's local code (response status)
  rv,         \* load's local rv (the data URL)
  data,       \* save's local data (number of bytes load returned)
  exc,        \* the exception that ended the program, or "none"
  snap,       \* html snapshot files written for the current row
  pre,        \* size of the artifact when save was called for the current row
  nload,      \* calls of load for the current row (saturating)
  ntimeout,   \* TimeoutExceptions caught for the current row (saturating)
  nwrite,     \* writes of the artifact for the current row
  raised,     \* the exception load raised last for the current row, or "none"
  res,        \* per row: "pending" | "skip" | "fetching" | "saved" | "ignored"
  nrecycle    \* returns of close_oldest so far

vars == <<rows, run, prev, fs, session, tabs, focus, created, pc, it, i, progress, imgs,
          log, ret, keep_ntab, code, rv, data, exc, snap, pre, nload, ntimeout,
          nwrite, raised, res, nrecycle>>

browserVars == <<session, tabs, focus, created>>
loopVars == <<it, i, progress, imgs, keep_ntab>>
loadVars == <<code, rv, data, snap>>
obsVars == <<pre, nload, ntimeout, nwrite, raised, res, nrecycle>>

\* ---------------------------------------------------------------- helpers
Max(a, b) == IF a >= b THEN a ELSE b
Min(a, b) == IF a <= b THEN a ELSE b
Last(s) == s[Len(s)]
Inc(n) == Min(n + 1, MaxCount)

\* a row of the table: the columns SDSS_NAME and targetid
RowSet == {[SDSS_NAME |-> t, targetid |-> t] : t \in 1..NumTargets}

\* f"{row.SDSS_NAME}-desi-{dr}-{row.targetid}.png"
ImgName(row) == <<row.SDSS_NAME, "desi", dr, row.targetid, "png">>

Paths == {ImgName(r) : r \in RowSet}

\* A string is a sequence of chunks of characters. The data URLs a canvas
\* export yields: a PNG, or "data:," for an empty canvas.
DataUrls == {<<"data:", "image/png;base64", ",", "AAAA">>, <<"data:", ",">>}

\* the chunks the strings handed to url2bytes alone are made of
UrlChunks == {"data:", ",", "AAAA", "A"}

\* characters of a chunk that are in the base64 alphabet (A-Z a-z 0-9 + /)
Base64Chars(chunk) ==
  CASE chunk = "data:" -> 4
    [] chunk = "image/png;base64" -> 15
    [] chunk = "AAAA" -> 4
    [] chunk = "A" -> 1
    [] OTHER -> 0

RECURSIVE CountBase64Chars(_)
CountBase64Chars(s) ==
  IF s = <<>> THEN 0 ELSE Base64Chars(Head(s)) + CountBase64Chars(Tail(s))

\* base64decode (b64decode, validate=False): characters outside the alphabet
\* are discarded, four characters give three bytes, and a count that is not a
\* multiple of four raises binascii.Error. The result is the number of bytes.
Base64Decode(s) ==
  LET n == CountBase64Chars(s)
  IN IF n % 4 = 0 THEN 3 * (n \div 4) ELSE B64Error

\* position of the first comma of s, 0 if it has none
FirstComma(s) ==
  IF \E k \in 1..Len(s) : s[k] = ","
  THEN CHOOSE k \in 1..Len(s) : s[k] = "," /\ \A j \in 1..(k - 1) : s[j] # ","
  ELSE 0

\* line 55: replace(r"^data:[^,]*,", "", url): what follows the first comma
\* if url starts with "data:" and has a comma, else url as it is
StripDataPrefix(url) ==
  IF url # <<>> /\ Head(url) = "data:" /\ FirstComma(url) > 0
  THEN SubSeq(url, FirstComma(url) + 1, Len(url))
  ELSE url

\* url2bytes, lines 54-56
Url2Bytes(url) == Base64Decode(StripDataPrefix(url))

\* filesize: st_size of a regular file, else 0
FileSize(f) == IF fs[f] # Absent THEN fs[f] ELSE 0

\* mutant of AlreadyExists: any regular file counts, whatever its size
AlreadyExists_AnySize(f) == fs[f] # Absent

\* mutant of AlreadyExists: the test inverted
AlreadyExists_Inverted(f) == FileSize(f) = 0

\* save line 150: the artifact already exists
AlreadyExists(f) == FileSize(f) > 0

\* load line 136: client/server error
\* mutant of IsErrorStatus: 400 itself is let through
IsErrorStatus_Above(c) == c > ErrorStatus

IsErrorStatus(c) == c >= ErrorStatus

StatusCodes == {200, ErrorStatus - 1, ErrorStatus}

\* the row being processed and its artifact path
Row == rows[it]
Dst == ImgName(Row)
NRow == Len(rows)

\* ------------------------------------------------------------------- Init
InitObs ==
  /\ pre = 0 /\ nload = 0 /\ ntimeout = 0 /\ nwrite = 0 /\ nrecycle = 0
  /\ raised = "none"
  /\ res = [k \in 1..Len(rows) |-> "pending"]
  /\ run = 1 /\ prev = [k \in 1..Len(rows) |-> "pending"]

InitLocals ==
  /\ progress = <<0, 0>> /\ ret = FALSE /\ code = NoCode /\ rv = <<>> /\ data = NoData
  /\ exc = "none" /\ snap = {}

\* __main__ lines 173-179: ff = init() has one tab; df is read; imgs, i = [], 0.
\* Files of spec/ that no row names are never read: they start absent.
Init ==
  /\ rows \in UNION {[1..n -> RowSet] : n \in 0..MaxRows}
  /\ fs \in [Paths -> {Absent, 0, PngBytes}]
  /\ \A f \in Paths : (\A k \in 1..Len(rows) : ImgName(rows[k]) # f) => fs[f] = Absent
  /\ session = "open" /\ tabs = <<0>> /\ focus = 0 /\ created = 0
  /\ pc = "for" /\ it = 0 /\ i = 0 /\ imgs = <<>> /\ log = <<>>
  /\ keep_ntab = KeepTabs
  /\ InitLocals /\ InitObs

\* ------------------------------------------------------- __main__, the loop
\* mutant of ForNext: the prefix is formatted before i is incremented
ForNext_StaleIndex ==
  /\ pc = "for" /\ it < NRow
  /\ it' = it + 1 /\ i' = i + 1
  /\ progress' = <<i, NRow>>
  /\ pc' = "save"
  /\ pre' = 0 /\ nload' = 0 /\ ntimeout' = 0 /\ nwrite' = 0 /\ snap' = {}
  /\ code' = NoCode /\ rv' = <<>> /\ data' = NoData /\ raised' = "none"
  /\ UNCHANGED <<rows, run, prev, fs, browserVars, imgs, log, ret, keep_ntab, exc, res, nrecycle>>

\* lines 180-183: the next row; img_name, progress; save is called
ForNext ==
  /\ pc = "for" /\ it < NRow
  /\ it' = it + 1 /\ i' = i + 1
  /\ progress' = <<i + 1, NRow>>
  /\ pc' = "save"
  /\ pre' = 0 /\ nload' = 0 /\ ntimeout' = 0 /\ nwrite' = 0 /\ snap' = {}
  /\ code' = NoCode /\ rv' = <<>> /\ data' = NoData /\ raised' = "none"
  /\ UNCHANGED <<rows, run, prev, fs, browserVars, imgs, log, ret, keep_ntab, exc, res, nrecycle>>

\* lines 185-186: the loop is exhausted: "finished", the count and the listing
ForElse ==
  /\ pc = "for" /\ it = NRow
  /\ log' = Append(log, [kind |-> "ready", count |-> Len(imgs), list |-> imgs])
  /\ pc' = "quit"
  /\ UNCHANGED <<rows, run, prev, fs, browserVars, loopVars, ret, loadVars, exc, obsVars>>

\* line 190: ff.quit()
Quit ==
  /\ pc = "quit"
  /\ session' = "quit" /\ tabs' = <<>> /\ focus' = NoWindow
  /\ pc' = "exit"
  /\ UNCHANGED <<rows, run, prev, fs, created, loopVars, log, ret, loadVars, exc, obsVars>>

\* mutant of AppendImg: close_oldest(ff, 3)
AppendImg_KeepThree ==
  /\ pc = "ret"
  /\ imgs' = IF ret THEN Append(imgs, ImgName(Row)) ELSE imgs
  /\ keep_ntab' = KeepTabs + 1
  /\ pc' = "close_oldest"
  /\ UNCHANGED <<rows, run, prev, fs, browserVars, it, i, progress, log, ret, loadVars, exc, obsVars>>

\* mutant of AppendImg: close_oldest runs only when save succeeded
AppendImg_RecycleOnSuccess ==
  /\ pc = "ret"
  /\ imgs' = IF ret THEN Append(imgs, ImgName(Row)) ELSE imgs
  /\ keep_ntab' = KeepTabs
  /\ pc' = IF ret THEN "close_oldest" ELSE "for"
  /\ UNCHANGED <<rows, run, prev, fs, browserVars, it, i, progress, log, ret, loadVars, exc, obsVars>>

\* mutant of AppendImg: img_name is appended whatever save returned
AppendImg_Always ==
  /\ pc = "ret"
  /\ imgs' = Append(imgs, ImgName(Row))
  /\ keep_ntab' = KeepTabs
  /\ pc' = "close_oldest"
  /\ UNCHANGED <<rows, run, prev, fs, browserVars, it, i, progress, log, ret, loadVars, exc, obsVars>>

\* line 183, after save returned: save(...) and imgs.append(img_name);
\* line 184: close_oldest(ff, 2) is called
AppendImg ==
  /\ pc = "ret"
  /\ imgs' = IF ret THEN Append(imgs, ImgName(Row)) ELSE imgs
  /\ keep_ntab' = KeepTabs
  /\ pc' = "close_oldest"
  /\ UNCHANGED <<rows, run, prev, fs, browserVars, it, i, progress, log, ret, loadVars, exc, obsVars>>

\* ------------------------------------------------------------------- save
\* an exception that leaves save ends the program: nothing in __main__ catches it
Fatal(e) == pc' = "fatal" /\ exc' = e

\* lines 148-149: dst; br.switch_to.new_window()
SaveNewWindow ==
  /\ pc = "save"
  /\ tabs' = Append(tabs, created + 1) /\ created' = created + 1
  /\ focus' = created + 1
  /\ pre' = FileSize(Dst)
  /\ pc' = "filesize"
  /\ UNCHANGED <<rows, run, prev, fs, session, loopVars, log, ret, loadVars, exc,
                 nload, ntimeout, nwrite, raised, res, nrecycle>>

\* line 150, the test: filesize(dst) > 0
SaveFilesize ==
  /\ pc = "filesize"
  /\ pc' = IF AlreadyExists(Dst) THEN "show_existing" ELSE "logo"
  /\ res' = [res EXCEPT ![it] = IF AlreadyExists(Dst) THEN "skip" ELSE "fetching"]
  /\ UNCHANGED <<rows, run, prev, fs, browserVars, loopVars, log, ret, loadVars, exc,
                 pre, nload, ntimeout, nwrite, raised, nrecycle>>

\* mutant of SaveShowExisting: the new tab is closed before save returns
SaveShowExisting_ClosesTab ==
  /\ pc = "show_existing"
  /\ \/ /\ ret' = TRUE /\ pc' = "ret" /\ exc' = exc
        /\ tabs' = SubSeq(tabs, 1, Len(tabs) - 1) /\ focus' = NoWindow
     \/ ret' = ret /\ Fatal("TimeoutException") /\ UNCHANGED <<tabs, focus>>
  /\ UNCHANGED <<rows, run, prev, fs, session, created, loopVars, log, loadVars, obsVars>>

\* line 150: return br.get(file2url(dst)) or True; br.get may time out
SaveShowExisting ==
  /\ pc = "show_existing"
  /\ \/ ret' = TRUE /\ pc' = "ret" /\ exc' = exc
     \/ ret' = ret /\ Fatal("TimeoutException")
  /\ UNCHANGED <<rows, run, prev, fs, browserVars, loopVars, log, loadVars, obsVars>>

\* line 151: br.get("about:logo"), send_keys(netmonitor), sleep(1)
SaveLogo ==
  /\ pc = "logo"
  /\ \/ pc' = "load" /\ exc' = exc
     \/ Fatal("TimeoutException")
  /\ UNCHANGED <<rows, run, prev, fs, browserVars, loopVars, log, ret, loadVars, obsVars>>

\* mutant of Handler: JavascriptException is not caught
Handler_JsUncaught(e) ==
  CASE e = "TimeoutException" -> "sleep"
    [] OTHER -> "fatal"

\* mutant of Handler: a bare except clause ignores every other exception
Handler_CatchAll(e) ==
  CASE e = "TimeoutException" -> "sleep"
    [] OTHER -> "print_ignored"

\* lines 153-159: where an exception raised by load takes save
Handler(e) ==
  CASE e = "TimeoutException" -> "sleep"
    [] e = "JavascriptException" -> "print_ignored"
    [] OTHER -> "fatal"

\* load raises e: save's try statement decides what follows
Raise(e) ==
  /\ pc' = Handler(e)
  /\ exc' = IF Handler(e) = "fatal" THEN e ELSE exc
  /\ ntimeout' = IF e = "TimeoutException" THEN Inc(ntimeout) ELSE ntimeout
  /\ raised' = e

\* mutant of SaveSleep: a "created" line is printed for every attempt
SaveSleep_PrintsCreated ==
  /\ pc = "sleep"
  /\ pc' = "load"
  /\ log' = Append(log, [kind |-> "created", idx |-> progress[1], n |-> progress[2],
                         id |-> Row.targetid, dst |-> Dst])
  /\ UNCHANGED <<rows, run, prev, fs, browserVars, loopVars, ret, loadVars, exc, obsVars>>

\* mutant of SaveSleep: the Target is given up after MaxCount timeouts
SaveSleep_GivesUp ==
  /\ pc = "sleep"
  /\ pc' = IF ntimeout >= MaxCount THEN "print_ignored" ELSE "load"
  /\ UNCHANGED <<rows, run, prev, fs, browserVars, loopVars, log, ret, loadVars, exc, obsVars>>

\* mutant of SaveSleep: every retry opens a tab of its own
SaveSleep_NewWindow ==
  /\ pc = "sleep"
  /\ created' = created + 1
  /\ tabs' = Append(tabs, created + 1)
  /\ focus' = created + 1
  /\ pc' = "load"
  /\ UNCHANGED <<rows, run, prev, fs, session, loopVars, log, ret, loadVars, exc, obsVars>>

\* line 156: except TimeoutException: sleep(3), and the loop calls load again
SaveSleep ==
  /\ pc = "sleep"
  /\ pc' = "load"
  /\ UNCHANGED <<rows, run, prev, fs, browserVars, loopVars, log, ret, loadVars, exc, obsVars>>

\* line 160: write(dst, data)
SaveWrite ==
  /\ pc = "write"
  /\ fs' = [fs EXCEPT ![Dst] = data]
  /\ nwrite' = nwrite + 1
  /\ pc' = "print_created"
  /\ UNCHANGED <<rows, run, prev, browserVars, loopVars, log, ret, loadVars, exc,
                 pre, nload, ntimeout, raised, res, nrecycle>>

\* lines 161-162: print(log_prefix + "created", ...); return True
SavePrintCreated ==
  /\ pc = "print_created"
  /\ log' = Append(log, [kind |-> "created", idx |-> progress[1], n |-> progress[2],
                         id |-> Row.targetid, dst |-> Dst])
  /\ ret' = TRUE
  /\ res' = [res EXCEPT ![it] = "saved"]
  /\ pc' = "ret"
  /\ UNCHANGED <<rows, run, prev, fs, browserVars, loopVars, loadVars, exc,
                 pre, nload, ntimeout, nwrite, raised, nrecycle>>

\* mutant of SavePrintIgnored: an empty artifact is left behind for an ignored row
SavePrintIgnored_Writes ==
  /\ pc = "print_ignored"
  /\ log' = Append(log, [kind |-> "ignored", idx |-> progress[1], n |-> progress[2],
                         id |-> Row.targetid, dst |-> Dst])
  /\ fs' = [fs EXCEPT ![Dst] = 0]
  /\ ret' = FALSE
  /\ res' = [res EXCEPT ![it] = "ignored"]
  /\ pc' = "ret"
  /\ UNCHANGED <<rows, run, prev, browserVars, loopVars, loadVars, exc,
                 pre, nload, ntimeout, nwrite, raised, nrecycle>>

\* lines 157-159: except JavascriptException: print(log_prefix + "ignored", ...);
\* return False
SavePrintIgnored ==
  /\ pc = "print_ignored"
  /\ log' = Append(log, [kind |-> "ignored", idx |-> progress[1], n |-> progress[2],
                         id |-> Row.targetid, dst |-> Dst])
  /\ ret' = FALSE
  /\ res' = [res EXCEPT ![it] = "ignored"]
  /\ pc' = "ret"
  /\ UNCHANGED <<rows, run, prev, fs, browserVars, loopVars, loadVars, exc,
                 pre, nload, ntimeout, nwrite, raised, nrecycle>>

\* ------------------------------------------------------------------- load
loadFrame == <<rows, run, prev, fs, browserVars, loopVars, log, ret, pre, nwrite, res, nrecycle>>

\* line 154 calls load; line 125: br.get(viewer URL of dr, id)
LoadGet ==
  /\ pc = "load"
  /\ nload' = Inc(nload)
  /\ code' = NoCode /\ rv' = <<>> /\ data' = NoData
  /\ \/ pc' = "load_v2" /\ raised' = "none" /\ UNCHANGED <<exc, ntimeout>>
     \/ Raise("TimeoutException")
  /\ UNCHANGED <<loadFrame, snap>>

\* line 133: rv = str(exec_js(br, v2)); line 134: except JavascriptException
LoadV2 ==
  /\ pc = "load_v2"
  /\ \/ \E u \in DataUrls : rv' = u /\ pc' = "load_get_rv" /\ UNCHANGED <<exc, ntimeout, raised>>
     \/ rv' = rv /\ pc' = "load_status" /\ UNCHANGED <<exc, ntimeout, raised>>
     \/ rv' = rv /\ Raise("TimeoutException")
  /\ UNCHANGED <<loadFrame, code, data, snap, nload>>

\* lines 135-136: code := responseStatus; >= 400 raises Exception(code)
LoadStatus ==
  /\ pc = "load_status"
  /\ \/ \E c \in StatusCodes :
          /\ code' = c
          /\ IF IsErrorStatus(c) THEN Raise("Exception") ELSE
               pc' = "load_view_source" /\ UNCHANGED <<exc, ntimeout, raised>>
     \/ code' = code /\ Raise("TimeoutException")
     \/ code' = code /\ Raise("JavascriptException")
  /\ UNCHANGED <<loadFrame, rv, data, snap, nload>>

\* lines 137-138: br.get(f"view-source:{h}")
LoadViewSource ==
  /\ pc = "load_view_source"
  /\ \/ pc' = "load_text" /\ UNCHANGED <<exc, ntimeout, raised>>
     \/ Raise("TimeoutException")
  /\ UNCHANGED <<loadFrame, loadVars, nload>>

\* line 139: rv = str(exec_js(br, "return document.body.textContent"))
LoadText ==
  /\ pc = "load_text"
  /\ \/ rv' = <<"html">> /\ pc' = "load_write_html" /\ UNCHANGED <<exc, ntimeout, raised>>
     \/ rv' = rv /\ Raise("TimeoutException")
     \/ rv' = rv /\ Raise("JavascriptException")
  /\ UNCHANGED <<loadFrame, code, data, snap, nload>>

\* line 140: write(f"{f}.orig", ...), write(f, ...)
LoadWriteHtml ==
  /\ pc = "load_write_html"
  /\ snap' = snap \cup {"html.orig", "html"}
  /\ pc' = "load_get_file"
  /\ UNCHANGED <<loadFrame, code, rv, data, exc, nload, ntimeout, raised>>

\* line 141: br.get(file2url(f))
LoadGetFile ==
  /\ pc = "load_get_file"
  /\ \/ pc' = "load_v3" /\ UNCHANGED <<exc, ntimeout, raised>>
     \/ Raise("TimeoutException")
  /\ UNCHANGED <<loadFrame, loadVars, nload>>

\* line 142: rv = str(exec_js(br, v3))
LoadV3 ==
  /\ pc = "load_v3"
  /\ \/ \E u \in DataUrls : rv' = u /\ pc' = "load_get_rv" /\ UNCHANGED <<exc, ntimeout, raised>>
     \/ rv' = rv /\ Raise("TimeoutException")
     \/ rv' = rv /\ Raise("JavascriptException")
  /\ UNCHANGED <<loadFrame, code, data, snap, nload>>

\* lines 143-144: br.get(rv); return url2bytes(rv); line 155: break
LoadReturn ==
  /\ pc = "load_get_rv"
  /\ \/ data' = Url2Bytes(rv) /\ pc' = "write" /\ UNCHANGED <<exc, ntimeout, raised>>
     \/ data' = data /\ Raise("TimeoutException")
  /\ UNCHANGED <<loadFrame, code, rv, snap, nload>>

\* ----------------------------------------------------------- close_oldest
\* mutant of KeepLimit: one tab too many is kept
KeepLimit_OffByOne(k) == Max(k, 1) + 1

\* line 165: max(keep_ntab, +1)
KeepLimit(k) == Max(k, 1)

closeFrame == <<rows, run, prev, fs, session, created, loopVars, log, ret, loadVars, exc,
                pre, nload, ntimeout, nwrite, raised, res>>

\* mutant of CloseOldestLoop: the newest tab is closed
CloseOldestLoop_Newest ==
  /\ pc = "close_oldest"
  /\ Len(tabs) > KeepLimit(keep_ntab)
  /\ tabs' = SubSeq(tabs, 1, Len(tabs) - 1)
  /\ focus' = NoWindow
  /\ UNCHANGED <<pc, nrecycle, closeFrame>>

\* lines 165-167: while len(br.window_handles) > max(keep_ntab, +1):
\* switch to window_handles[0] and close it
CloseOldestLoop ==
  /\ pc = "close_oldest"
  /\ Len(tabs) > KeepLimit(keep_ntab)
  /\ tabs' = Tail(tabs)
  /\ focus' = NoWindow
  /\ UNCHANGED <<pc, nrecycle, closeFrame>>

\* lines 168-169: else: switch to window_handles[-1]; close_oldest returns
CloseOldestElse ==
  /\ pc = "close_oldest"
  /\ ~(Len(tabs) > KeepLimit(keep_ntab))
  /\ focus' = Last(tabs)
  /\ nrecycle' = nrecycle + 1
  /\ pc' = "for"
  /\ UNCHANGED <<tabs, closeFrame>>

\* ------------------------------------------------------------ the program
Next ==
  \/ ForNext \/ ForElse \/ Quit \/ AppendImg
  \/ SaveNewWindow \/ SaveFilesize \/ SaveShowExisting \/ SaveLogo
  \/ SaveSleep \/ SaveWrite \/ SavePrintCreated \/ SavePrintIgnored
  \/ LoadGet \/ LoadV2 \/ LoadStatus \/ LoadViewSource \/ LoadText
  \/ LoadWriteHtml \/ LoadGetFile \/ LoadV3 \/ LoadReturn
  \/ CloseOldestLoop \/ CloseOldestElse

Spec == Init /\ [][Next]_vars

\* close_oldest alone, called with any keep_ntab on any session with a tab open
Perms(n) == {f \in [1..n -> 1..n] : \A a, b \in 1..n : f[a] = f[b] => a = b}

InitRecycle ==
  /\ rows = <<>> /\ fs = [f \in Paths |-> Absent]
  /\ session = "open"
  /\ tabs \in UNION {Perms(n) : n \in 1..MaxTabs}
  /\ created = Len(tabs)
  /\ focus \in {tabs[k] : k \in 1..Len(tabs)} \cup {NoWindow}
  /\ keep_ntab \in -1..MaxKeep
  /\ pc = "close_oldest" /\ it = 0 /\ i = 0 /\ imgs = <<>> /\ log = <<>>
  /\ InitLocals /\ InitObs

\* the program is started again over the same table and the directory as the
\* run before left it; lines 173-179 run anew
Rerun ==
  /\ pc \in {"exit", "fatal"} /\ run < MaxRuns
  /\ run' = run + 1 /\ prev' = res
  /\ session' = "open" /\ tabs' = <<0>> /\ focus' = 0 /\ created' = 0
  /\ pc' = "for" /\ it' = 0 /\ i' = 0 /\ imgs' = <<>> /\ log' = <<>>
  /\ keep_ntab' = KeepTabs
  /\ progress' = <<0, 0>> /\ ret' = FALSE /\ code' = NoCode /\ rv' = <<>>
  /\ data' = NoData /\ exc' = "none" /\ snap' = {}
  /\ pre' = 0 /\ nload' = 0 /\ ntimeout' = 0 /\ nwrite' = 0 /\ nrecycle' = 0
  /\ raised' = "none"
  /\ res' = [k \in 1..NRow |-> "pending"]
  /\ UNCHANGED <<rows, fs>>

NextRerun == Next \/ Rerun

RerunSpec == Init /\ [][NextRerun]_vars

\* url2bytes alone, lines 54-56: data = url2bytes(rv)
Url2BytesCall ==
  /\ pc = "url2bytes"
  /\ data' = Url2Bytes(rv)
  /\ pc' = "url2bytes_done"
  /\ UNCHANGED <<rows, run, prev, fs, browserVars, loopVars, log, ret, code, rv, snap, exc, obsVars>>

\* url2bytes is handed any string of at most MaxUrlLen chunks
InitUrl ==
  /\ rows = <<>> /\ fs = [f \in Paths |-> Absent]
  /\ session = "open" /\ tabs = <<0>> /\ focus = 0 /\ created = 0
  /\ pc = "url2bytes" /\ it = 0 /\ i = 0 /\ imgs = <<>> /\ log = <<>>
  /\ keep_ntab = KeepTabs
  /\ progress = <<0, 0>> /\ ret = FALSE /\ code = NoCode /\ data = NoData
  /\ exc = "none" /\ snap = {}
  /\ rv \in UNION {[1..n -> UrlChunks] : n \in 0..MaxUrlLen}
  /\ InitObs

NextUrl == Url2BytesCall

UrlSpec == InitUrl /\ [][NextUrl]_vars

NextRecycle == CloseOldestLoop \/ CloseOldestElse

RecycleSpec == InitRecycle /\ [][NextRecycle]_vars

\* the interpreter keeps running the program while a statement is left to run
FairSpec == Spec /\ WF_vars(Next)

\* ================================================================ claims
LoadPcs == {"load", "load_v2", "load_status", "load_view_source", "load_text",
            "load_write_html", "load_get_file", "load_v3", "load_get_rv"}
RetryPcs == LoadPcs \cup {"sleep"}
FetchPcs == RetryPcs \cup {"logo", "write", "print_created", "print_ignored"}
ReturnedPcs == {"ret", "close_oldest", "for", "quit", "exit"}
Resolved == {"skip", "saved", "ignored"}

\* the printed lines of one kind that carry the progress index k
Lines(kind, k) == {j \in 1..Len(log) : log[j].kind = kind /\ log[j].idx = k}

\* C1: when the artifact is a non-empty regular file at the call of save, save
\* never calls load (no navigation to the viewer), never writes the artifact,
\* and what it returns is True.
C1_ExistingNotFetched ==
  (it >= 1 /\ pre > 0) =>
    /\ nload = 0 /\ nwrite = 0 /\ fs[Dst] = pre
    /\ pc \notin FetchPcs
    /\ (pc \in ReturnedPcs => ret = TRUE /\ res[it] = "skip")

C1_Witness == pc = "ret" /\ pre > 0 /\ ret = TRUE /\ nload = 0

\* C2: when close_oldest returns, at most max(keep_ntab, 1) tabs are open and
\* the session is switched to the last handle of window_handles.
C2_CloseOldestPost ==
  pc = "for" =>
    /\ Len(tabs) >= 1
    /\ Len(tabs) <= (IF keep_ntab >= 1 THEN keep_ntab ELSE 1)
    /\ focus = tabs[Len(tabs)]

C2_Witness ==
  pc = "for" /\ nrecycle = 1 /\ keep_ntab = 0 /\ created = MaxTabs /\ Len(tabs) = 1

\* C3: in the batch, once a row is resolved and close_oldest has returned, at
\* most 2 tabs are open.
C3_TwoTabsAfterEachTarget ==
  (pc = "for" /\ it >= 1) => (res[it] \in Resolved /\ nrecycle = it /\ Len(tabs) <= 2)

C3_Witness == pc = "for" /\ it = 2 /\ created = 2 /\ Len(tabs) = 2 /\ res[2] = "ignored"

\* C4: when load raises JavascriptException, save prints exactly one "ignored"
\* line for the row, writes nothing, returns False, and the driver goes on with
\* close_oldest and the next row: the program is not ended.
C4_ScriptFailureIgnored ==
  (it >= 1 /\ raised = "JavascriptException") =>
    /\ pc \in {"print_ignored", "ret", "close_oldest", "for"}
              \cup (IF it = NRow THEN {"quit", "exit"} ELSE {})
    /\ exc = "none"
    /\ nwrite = 0 /\ FileSize(Dst) = pre
    /\ Lines("created", it) = {}
    /\ Cardinality(Lines("ignored", it)) = (IF pc = "print_ignored" THEN 0 ELSE 1)
    /\ (pc # "print_ignored" => ret = FALSE /\ res[it] = "ignored")

C4_Witness ==
  it = 2 /\ pc = "save" /\ res[1] = "ignored" /\ Cardinality(Lines("ignored", 1)) = 1

\* C5: however many attempts timed out before load returned, save prints one
\* "created" line and writes the artifact once, both after load returned, and
\* returns True; no line and no write happen per attempt.
C5_OneCreatedLine ==
  it >= 1 =>
    LET c == Cardinality(Lines("created", it)) IN
    /\ (data = NoData => c = 0 /\ nwrite = 0)
    /\ (data # NoData /\ pc = "write" => c = 0 /\ nwrite = 0)
    /\ (data # NoData /\ pc = "print_created" => c = 0 /\ nwrite = 1)
    /\ (data # NoData /\ pc \notin {"write", "print_created"} =>
          c = 1 /\ nwrite = 1 /\ ret = TRUE /\ res[it] = "saved" /\ fs[Dst] = data)

C5_Witness ==
  pc = "ret" /\ ntimeout = MaxCount /\ data # NoData /\ ret = TRUE
  /\ Cardinality(Lines("created", it)) = 1

\* C6: a TimeoutException at any point of the processing of a row never ends the
\* program, and while it is the last exception raised the row is still being
\* fetched: save sleeps and calls load again.
C6_TimeoutAlwaysRetried ==
  /\ exc # "TimeoutException"
  /\ (raised = "TimeoutException" => (pc \in {"sleep", "load"} /\ res[it] = "fetching"))

\* C7: once load has read a response status >= 400 it has raised Exception(code):
\* the program is ended by it, the row is neither retried nor ignored, nothing
\* is written or printed for it, and no later row is started.
C7_ErrorStatusFatal ==
  (it >= 1 /\ code >= 400) =>
    /\ pc = "fatal" /\ exc = "Exception" /\ raised = "Exception"
    /\ res[it] = "fetching"
    /\ nwrite = 0 /\ FileSize(Dst) = pre
    /\ Lines("created", it) = {} /\ Lines("ignored", it) = {}
    /\ \A k \in (it + 1)..NRow : res[k] = "pending"

C7_Witness == pc = "fatal" /\ code = 400 /\ it = 1 /\ NRow = 2 /\ ntimeout >= 1

\* the position of row k in the state machine of the batch driver
Done(k) == k < it \/ (k = it /\ pc \in {"close_oldest", "for", "quit", "exit"})
St(k) == IF Done(k) THEN "done" ELSE res[k]
Edges == {<<"pending", "skip">>, <<"pending", "fetching">>, <<"fetching", "saved">>,
          <<"fetching", "ignored">>, <<"skip", "done">>, <<"saved", "done">>,
          <<"ignored", "done">>}

\* C8 (as stated): every row reaches one of skip, saved, ignored: when the
\* program has ended no row is left pending or fetching.
C8_EveryTargetResolved ==
  pc \in {"exit", "fatal"} => \A k \in 1..NRow : res[k] \in Resolved

\* C8 (amended): every row moves only along the edges pending -> (skip |
\* fetching -> (saved | ignored)) -> done, and the next row is started only when
\* close_oldest has returned once for every row before it.
C8_StateMachine ==
  [][ /\ \A k \in 1..NRow : St(k)' = St(k) \/ <<St(k), St(k)'>> \in Edges
      /\ (it' # it => (it' = it + 1 /\ nrecycle = it)) ]_vars

C8_Witness ==
  pc = "for" /\ it = 2 /\ nrecycle = 2 /\ res[1] = "ignored" /\ res[2] = "skip"

\* C9 (as stated): save always leaves its retry loop.
C9_RetriesEnd == []<>(pc \notin RetryPcs)

\* C9 (amended): every TimeoutException load raises sends save to the sleep, and
\* after the sleep save calls load again for the same row, however many
\* attempts were made before.
C9_RetryHasNoCap ==
  [][ /\ (raised' = "TimeoutException" => pc' \in {"sleep", "load"})
      /\ (pc = "sleep" => (pc' = "load" /\ it' = it)) ]_vars

C9_Witness == pc = "load" /\ raised = "TimeoutException" /\ ntimeout = MaxCount

\* C10: rows are processed one after the other in the order of the table: while
\* row it is processed every earlier row is resolved and every later row is
\* pending, one tab was opened per started row, and every printed line carries
\* the position of its row and the length of the table.
C10_SequentialInOrder ==
  /\ it = i
  /\ created = (IF pc = "save" THEN it - 1 ELSE it)
  /\ \A k \in 1..NRow :
       /\ (k < it => res[k] \in Resolved)
       /\ (k > it => res[k] = "pending")
  /\ \A j \in 1..Len(log) :
       log[j].kind \in {"created", "ignored"} =>
         /\ log[j].idx \in 1..it /\ log[j].n = NRow
         /\ log[j].id = rows[log[j].idx].targetid
         /\ \A h \in 1..(j - 1) : log[h].idx < log[j].idx

C10_Witness ==
  it = 2 /\ Len(log) = 2 /\ log[1].idx = 1 /\ log[2].idx = 2 /\ rows[1] # rows[2]

\* the file names of the rows 1..k that were skipped or saved, in table order
RECURSIVE Produced(_)
Produced(k) ==
  IF k = 0 THEN <<>>
  ELSE IF res[k] \in {"skip", "saved"} THEN Append(Produced(k - 1), ImgName(rows[k]))
  ELSE Produced(k - 1)

\* C11: when the loop has run to its end, imgs holds, in table order, exactly
\* the file names of the rows that were skipped or saved and of no ignored row,
\* and the count printed last is the length of imgs.
C11_ImgsAreSkippedOrSaved ==
  pc \in {"quit", "exit"} =>
    /\ \A k \in 1..NRow : res[k] \in Resolved
    /\ imgs = Produced(NRow)
    /\ log # <<>> /\ Last(log).kind = "ready"
    /\ Last(log).count = Len(Produced(NRow)) /\ Last(log).list = Produced(NRow)

C11_Witness ==
  pc = "exit" /\ NRow = 2 /\ res[1] = "ignored" /\ res[2] = "saved" /\ Len(imgs) = 1

\* C14: no tab outlives the batch: whenever the batch has ended, by running
\* the loop to its end or by a fatal exception, the session has been shut down
\* and no tab is open.
C14_NoTabOutlivesBatch ==
  pc \in {"exit", "fatal"} => session = "quit" /\ tabs = <<>>

\* what follows the first comma of s
AfterFirstComma(s) == SubSeq(s, FirstComma(s) + 1, Len(s))

\* C13: url2bytes returns the base64 decoding of what follows the first comma
\* of its argument, which is zero bytes when nothing follows the comma, and an
\* argument without a comma is rejected: it never yields decoded bytes.
C13_Url2BytesContract ==
  pc = "url2bytes_done" =>
    /\ FirstComma(rv) > 0 => data = Base64Decode(AfterFirstComma(rv))
    /\ (FirstComma(rv) > 0 /\ AfterFirstComma(rv) = <<>>) => data = 0
    /\ FirstComma(rv) = 0 => ~(data > 0)

\* C12: the artifact path of a row is a function of (SDSS_NAME, dr, targetid)
\* alone, and a run over the table and directory the run before left behind
\* skips every row that the run before skipped or saved.
C12_RerunSkipsSaved ==
  /\ it >= 1 => Dst = <<Row.SDSS_NAME, "desi", dr, Row.targetid, "png">>
  /\ \A k \in 1..NRow :
       (run >= 2 /\ res[k] # "pending" /\ prev[k] \in {"skip", "saved"}) => res[k] = "skip"

\* C15 as stated: on a cache hit the tab opened for the row is closed before
\* save returns.
C15_CacheHitTabClosed ==
  (pc = "ret" /\ pre > 0) => \A k \in 1..Len(tabs) : tabs[k] # created

\* C15: save opens one tab for the row it is called for; on a cache hit that
\* tab shows the existing artifact and is still open, newest and focused when
\* save returns, and it is still open when close_oldest has returned.
C15_CacheHitTabStaysOpen ==
  (it >= 1 /\ pre > 0) =>
    /\ pc \in {"show_existing", "ret"} => (Last(tabs) = it /\ focus = it)
    /\ pc \in {"close_oldest", "for"} => (tabs # <<>> /\ Last(tabs) = it)

C15_Witness ==
  pc = "for" /\ it = 2 /\ pre > 0 /\ res[1] = "skip" /\ res[2] = "skip" /\ tabs = <<1, 2>>

FallbackPcs == {"load_status", "load_view_source", "load_text", "load_write_html",
                "load_get_file", "load_v3"}

\* C16: load enters the fallback only from the primary script, when it raised
\* a scripting error and returned nothing; the snapshot pair is written only in
\* the fallback, after the status was read and found below 400; the step on
\* which the primary script succeeds writes no snapshot, and a status of 400
\* or more leaves the fallback without one.
C16_SnapshotOnlyInFallback ==
  [][ /\ (pc' \in FallbackPcs /\ pc \notin FallbackPcs) =>
           (pc = "load_v2" /\ pc' = "load_status" /\ rv' = rv /\ code = NoCode)
      /\ pc' = "load_write_html" => (code' # NoCode /\ code' < ErrorStatus)
      /\ (snap' # snap /\ it' = it) =>
           (pc = "load_write_html" /\ code # NoCode /\ code < ErrorStatus
              /\ snap' = {"html.orig", "html"})
      /\ (pc = "load_v2" /\ pc' = "load_get_rv") => snap' = snap
      /\ (pc = "load_status" /\ code' >= ErrorStatus) =>
           (snap' = snap /\ pc' \notin FallbackPcs)
    ]_vars

C16_Witness ==
  pc = "load_get_file" /\ code = ErrorStatus - 1 /\ snap = {"html.orig", "html"}

\* C17 as stated: after a row is done the open tabs are the tab of that row and
\* the tab of the row before it, or the tab of that row alone after the first.
C17_CurrentAndPreviousOnly ==
  (pc = "for" /\ it >= 1) => tabs = (IF it >= 2 THEN <<it - 1, it>> ELSE <<it>>)

\* C17: close_oldest closes the head of the handle list only, never the newest
\* tab and never the last one left; in the batch, when it returns after row it
\* the open tabs are exactly the tab opened before it (the tab of row it - 1, or
\* the tab the session started with, handle 0, after the first row) and the tab
\* of row it, which has the focus.
C17_OldestFirstKeepsTwo ==
  [][ /\ (pc = "close_oldest" /\ tabs' # tabs) =>
           (tabs' = Tail(tabs) /\ tabs' # <<>> /\ Last(tabs') = Last(tabs) /\ pc' = pc)
      /\ (pc = "close_oldest" /\ pc' = "for") =>
           (tabs' = <<it - 1, it>> /\ focus' = it)
    ]_vars

C17_Witness ==
  pc = "for" /\ it = 2 /\ nrecycle = 2 /\ tabs = <<1, 2>> /\ focus = 2

\* C18: save takes the fetching path exactly when the artifact path holds no
\* regular file or a file of size zero, and the skip path exactly when it holds
\* a file of positive size; a zero-size file stays as it is while the row is
\* fetched and is replaced by what load returned once save has written.
C18_FetchIffAbsentOrEmpty ==
  it >= 1 =>
    /\ pc = "show_existing" => (fs[Dst] # Absent /\ fs[Dst] > 0)
    /\ res[it] = "skip" => (fs[Dst] # Absent /\ fs[Dst] > 0 /\ nwrite = 0)
    /\ pc = "logo" => fs[Dst] \in {Absent, 0}
    /\ (pc \in FetchPcs /\ nwrite = 0) => fs[Dst] \in {Absent, 0}
    /\ pc = "print_created" => (nwrite = 1 /\ fs[Dst] = data)

C18_Witness ==
  pc = "write" /\ nwrite = 0 /\ fs[Dst] = 0 /\ data > 0

\* C19: the files under spec/ change only on the step on which save writes the
\* artifact of the current row, which happens once per row, after load has
\* returned its bytes, and a row becomes saved only after that write; a step
\* that makes a row skipped or ignored, that ends the program with an
\* exception, or that belongs to the retry loop changes no file.
C19_ArtifactWrittenIffSaved ==
  [][ /\ (fs' # fs \/ nwrite' > nwrite) =>
           /\ pc = "write" /\ pc' = "print_created"
           /\ raised = "none" /\ data # NoData /\ data = Url2Bytes(rv)
           /\ nwrite = 0 /\ nwrite' = 1
           /\ fs' = [fs EXCEPT ![Dst] = data]
      /\ (it >= 1 /\ it' = it /\ res'[it] # res[it]) =>
           /\ res'[it] = "saved" => (pc = "print_created" /\ nwrite = 1 /\ fs' = fs)
           /\ res'[it] \in {"skip", "fetching", "ignored"} => (fs' = fs /\ nwrite' = 0)
      /\ (pc' = "fatal" \/ pc' \in RetryPcs) => (fs' = fs /\ nwrite' = 0)
      /\ pc = "print_created" => (pc' = "ret" /\ res'[it] = "saved")
    ]_vars

C19_Witness ==
  pc = "print_created" /\ nwrite = 1 /\ ntimeout >= 1 /\ pre = 0 /\ data > 0 /\ fs[Dst] = data

====
